---- MODULE Spec2Model ----
(***************************************************************************)
(* Model of mcp_server_selenium/server.py: the SeleniumServer session      *)
(* registry and the handle_stdio read-eval-respond loop.                   *)
(*                                                                         *)
(* Representation.                                                         *)
(*  - A JSON object / Python dict is a function from key strings to        *)
(*    values; "k in d" is k \in DOMAIN d.  A JSON value that stands where  *)
(*    a mapping is expected but is not one (null, a list, a string) is the *)
(*    value NonMapping.                                                    *)
(*  - Python None is the string None; a session id f"{browser}_{id}" is    *)
(*    the record [browser, id]; current_session = None is NoSession.       *)
(*  - A formatted message is the tuple of its literal and interpolated     *)
(*    parts; str(e) of a caught exception is the tuple Exc builds.         *)
(*  - The automation engine is external: every call on it is logged in     *)
(*    calls, and the call number failAt (0 = none) raises.                 *)
(***************************************************************************)
EXTENDS Integers, Sequences, FiniteSets, TLC

\* ------------------------------------------------------------------ bounds
\* number of driver objects that can be alive at once: id(driver) is drawn
\* from 1..MaxDrivers, and a launch fails when all of them are in use
MaxDrivers == 2

\* ------------------------------------------------------- python / json glue
None == "None"
NoSession == [session |-> "None"]
EmptyDict == [k \in {} |-> ""]
NonMapping == [json |-> "not-an-object"]
NoExc == <<>>

IsMapping(v) == v # NonMapping

\* d.get(k)
Get(d, k) == IF k \in DOMAIN d THEN d[k] ELSE None
\* d.get(k, default)
GetD(d, k, default) == IF k \in DOMAIN d THEN d[k] ELSE default
\* JSON true / false
JTrue == "true"
JFalse == "false"
\* bool(v) for None, strings and booleans
Truthy(v) == v # None /\ v # "" /\ v # JFalse
\* a or b
Or(a, b) == IF Truthy(a) THEN a ELSE b

\* str(e) of the exceptions the code can raise
KeyErrorOf(k) == <<"'", k, "'">>
KeyErrorNone == <<"None">>
AttributeErrorGet == <<"object has no attribute 'get'">>
TypeErrorSubscript == <<"object is not subscriptable">>
RuntimeErrorNoSession == <<"No active browser session">>
ValueErrorStrategy(by) == <<"Invalid locator strategy: ", by>>
JSONDecodeError == <<"Expecting value: line 1 column 1 (char 0)">>
EngineError(op) == <<"engine: ", op>>

\* ------------------------------------------------------------ lookup tables
by_map == {"id", "css", "xpath", "name", "tag", "class"}
key_map == {"ENTER", "TAB", "ESCAPE", "BACKSPACE", "DELETE",
            "ARROW_DOWN", "ARROW_UP", "ARROW_LEFT", "ARROW_RIGHT"}
Browsers == {"chrome", "firefox"}
\* os.path.exists: the paths present on the local filesystem
ExistingPaths == {"/tmp/present.txt"}

\* ------------------------------------------------------------ result shapes
Text(msg) == [type |-> "text", text |-> msg]
Image == [type |-> "image", text |-> <<"base64">>]
ErrorResult(msg) == [content |-> <<Text(msg)>>, isError |-> TRUE]
OkResult(items) == [content |-> items, isError |-> FALSE]

\* what a server method leaves behind: its return value (or the exception
\* that escaped it), the registry, the current session, the engine calls made
Outcome(res, exc, d, c, cs) ==
  [result |-> res, exc |-> exc, drivers |-> d, current_session |-> c, calls |-> cs]
Returned(res, st, cs) == Outcome(res, NoExc, st.drivers, st.current_session, cs)

\* the engine calls ops[1..n], numbered k0, k0+1, ..., on handle h; the call
\* numbered failAt raises and the ones after it are not made
Failing(ops, k0, failAt) == failAt >= k0 /\ failAt < k0 + Len(ops)
Made(h, ops, k0, failAt) ==
  LET n == IF Failing(ops, k0, failAt) THEN failAt - k0 + 1 ELSE Len(ops)
  IN [i \in 1..n |-> [op |-> ops[i], handle |-> h]]
FailedOp(ops, k0, failAt) == ops[failAt - k0 + 1]

\* ------------------------------------------------------------ SeleniumServer
\* st is the server object: [drivers, current_session].  drivers maps a
\* session id to its driver handle, the handle being id(driver).

\* ids of the driver objects that are alive (referenced from the registry)
LiveIds(drivers) == {drivers[s] : s \in DOMAIN drivers}
\* the values id(driver) can take for a new driver object: an address no
\* live object has; 0 when the bound on live drivers is reached, and the
\* launch then fails
FreshIds(drivers) ==
  IF (1..MaxDrivers) \ LiveIds(drivers) = {} THEN {0}
  ELSE (1..MaxDrivers) \ LiveIds(drivers)

\* mutant: the session id is the browser kind alone
SessionId_kind_only(browser, h) == [browser |-> browser, id |-> 0]

\* line 69: f"{browser}_{id(driver)}"
SessionId(browser, h) == [browser |-> browser, id |-> h]
\* mutant: the driver is not stored in the registry
Register_nothing(drivers, sid, h) == drivers

\* line 70: self.drivers[session_id] = driver
Register(drivers, sid, h) ==
  [s \in DOMAIN drivers \cup {sid} |-> IF s = sid THEN h ELSE drivers[s]]

\* lines 38-57 and 69-81: the try body of start_browser for a supported
\* browser; options is the argument after "options = options or {}"
StartDriver(st, browser, options, failAt, h) ==
  IF ~IsMapping(options)
  THEN Returned(ErrorResult(<<"Error starting browser: ">> \o AttributeErrorGet), st, <<>>)
  ELSE IF failAt = 1 \/ h = 0
  THEN Returned(ErrorResult(<<"Error starting browser: ">> \o EngineError("launch")),
                st, <<[op |-> "launch", handle |-> 0]>>)
  ELSE LET session_id == SessionId(browser, h)
       IN Outcome([content |-> <<Text(<<"Browser started with session_id: ",
                                        session_id.browser, "_">>)>>,
                   session_id |-> session_id,
                   isError |-> FALSE],
                  NoExc,
                  Register(st.drivers, session_id, h),
                  session_id,
                  <<[op |-> "launch", handle |-> h]>>)

\* mutant: the new session is registered but not made current
start_browser_not_current(st, browser, options, failAt, h) ==
  IF browser \in Browsers
  THEN LET o == StartDriver(st, browser, options, failAt, h)
       IN Outcome(o.result, o.exc, o.drivers, st.current_session, o.calls)
  ELSE Returned(ErrorResult(<<"Unsupported browser: ", browser>>), st, <<>>)

\* mutant: an unknown browser kind falls back to chrome
start_browser_fallback(st, browser, options, failAt, h) ==
  StartDriver(st, IF browser \in Browsers THEN browser ELSE "chrome", options, failAt, h)

\* mutant: a launch that fails drops the current session
start_browser_failure_drops_session(st, browser, options, failAt, h) ==
  IF browser \in Browsers
  THEN LET o == StartDriver(st, browser, options, failAt, h)
       IN IF o.result.isError
          THEN Outcome(o.result, o.exc, o.drivers, NoSession, o.calls)
          ELSE o
  ELSE Returned(ErrorResult(<<"Unsupported browser: ", browser>>), st, <<>>)

start_browser(st, browser, options, failAt, h) ==
  IF browser \in Browsers
  THEN StartDriver(st, browser, options, failAt, h)
  ELSE Returned(ErrorResult(<<"Unsupported browser: ", browser>>), st, <<>>)

\* self.drivers[self.current_session]: the handle, or the KeyError
HasDriver(st) == st.current_session \in DOMAIN st.drivers
\* mutant: the driver of the oldest live handle instead of the current one
DriverOf_first(st) ==
  st.drivers[CHOOSE s \in DOMAIN st.drivers :
               \A t \in DOMAIN st.drivers : st.drivers[s] <= st.drivers[t]]
DriverOf(st) == st.drivers[st.current_session]
LookupError(st) ==
  IF st.current_session = NoSession THEN KeyErrorNone
  ELSE <<"'", st.current_session.browser, "_'">>

\* mutant: the strategy is handed to the engine without the by_map check
_get_element_unchecked(st, by, value, k0, failAt) ==
  IF st.current_session = NoSession
  THEN [exc |-> RuntimeErrorNoSession, calls |-> <<>>]
  ELSE IF ~HasDriver(st)
  THEN [exc |-> LookupError(st), calls |-> <<>>]
  ELSE [exc |-> IF failAt = k0 \/ by \notin by_map
                THEN EngineError("timeout") ELSE NoExc,
        calls |-> <<[op |-> "find_element", handle |-> DriverOf(st),
                     by |-> by, value |-> value]>>]

_get_element(st, by, value, k0, failAt) ==
  IF st.current_session = NoSession
  THEN [exc |-> RuntimeErrorNoSession, calls |-> <<>>]
  ELSE IF ~HasDriver(st)
  THEN [exc |-> LookupError(st), calls |-> <<>>]
  ELSE IF by \notin by_map
  THEN [exc |-> ValueErrorStrategy(by), calls |-> <<>>]
  ELSE [exc |-> IF failAt = k0 THEN EngineError("timeout") ELSE NoExc,
        calls |-> <<[op |-> "find_element", handle |-> DriverOf(st),
                     by |-> by, value |-> value]>>]

\* the body shared by the element operations: resolve one locator, then
\* make the engine calls ops on the element; any exception is turned into
\* an error result that starts with prefix
OnElement(st, by, value, ops, prefix, done, failAt) ==
  LET ge == _get_element(st, by, value, 1, failAt)
  IN IF ge.exc # NoExc
     THEN Returned(ErrorResult(<<prefix>> \o ge.exc), st, ge.calls)
     ELSE LET acts == Made(DriverOf(st), ops, 2, failAt)
              cs == ge.calls \o [i \in 1..Len(acts) |->
                                  [op |-> acts[i].op, handle |-> acts[i].handle,
                                   by |-> by, value |-> value]]
          IN IF Failing(ops, 2, failAt)
             THEN Returned(ErrorResult(<<prefix>> \o EngineError(FailedOp(ops, 2, failAt))),
                           st, cs)
             ELSE Returned(OkResult(done), st, cs)

\* mutant: no session check, the call goes to whatever the lookup yields
navigate_unguarded(st, url, failAt) ==
  LET cs == <<[op |-> "get", handle |-> IF HasDriver(st) THEN DriverOf(st) ELSE 0]>>
  IN IF failAt = 1
     THEN Returned(ErrorResult(<<"Error navigating: ">> \o EngineError("get")), st, cs)
     ELSE Returned(OkResult(<<Text(<<"Navigated to: ", url>>)>>), st, cs)

navigate(st, url, failAt) ==
  IF st.current_session = NoSession
  THEN Returned(ErrorResult(<<"No active browser session">>), st, <<>>)
  ELSE IF ~HasDriver(st)
  THEN Returned(ErrorResult(<<"Error navigating: ">> \o LookupError(st)), st, <<>>)
  ELSE LET cs == <<[op |-> "get", handle |-> DriverOf(st)]>>
       IN IF failAt = 1
          THEN Returned(ErrorResult(<<"Error navigating: ">> \o EngineError("get")), st, cs)
          ELSE Returned(OkResult(<<Text(<<"Navigated to: ", url>>)>>), st, cs)

find_element(st, by, value, failAt) ==
  OnElement(st, by, value, <<"tag_name", "text">>, "Error finding element: ",
            <<Text(<<"Element found.">>), Text(<<"tag_name: ", "text: ">>)>>, failAt)

click_element(st, by, value, failAt) ==
  OnElement(st, by, value, <<"click">>, "Error clicking element: ",
            <<Text(<<"Clicked element located by ", by, "=", value>>)>>, failAt)

type_text(st, by, value, text, clear_first, failAt) ==
  OnElement(st, by, value,
            IF Truthy(clear_first) THEN <<"clear", "send_keys">> ELSE <<"send_keys">>,
            "Error typing text: ",
            <<Text(<<"Typed text into element located by ", by, "=", value>>)>>, failAt)

hover(st, by, value, failAt) ==
  OnElement(st, by, value, <<"move_to_element">>, "Error hovering over element: ",
            <<Text(<<"Hovered over element located by ", by, "=", value>>)>>, failAt)

double_click(st, by, value, failAt) ==
  OnElement(st, by, value, <<"double_click">>, "Error double-clicking: ",
            <<Text(<<"Double-clicked element located by ", by, "=", value>>)>>, failAt)

right_click(st, by, value, failAt) ==
  OnElement(st, by, value, <<"context_click">>, "Error right-clicking element: ",
            <<Text(<<"Right-clicked element located by ", by, "=", value>>)>>, failAt)

\* mutant: a target that does not resolve is ignored and the gesture is
\* performed all the same
drag_and_drop_unresolved_target(st, source_by, source_value, target_by, target_value, failAt) ==
  LET prefix == "Error dragging and dropping: "
      source == _get_element(st, source_by, source_value, 1, failAt)
      target == _get_element(st, target_by, target_value, 2, failAt)
  IN IF source.exc # NoExc
     THEN Returned(ErrorResult(<<prefix>> \o source.exc), st, source.calls)
     ELSE LET cs == source.calls \o target.calls \o
                    <<[op |-> "drag_and_drop", handle |-> DriverOf(st),
                       by |-> source_by, value |-> source_value]>>
          IN IF failAt = 3
             THEN Returned(ErrorResult(<<prefix>> \o EngineError("drag_and_drop")), st, cs)
             ELSE Returned(OkResult(<<Text(<<"Dragged from ", source_value, " to ",
                                            target_value>>)>>), st, cs)

drag_and_drop(st, source_by, source_value, target_by, target_value, failAt) ==
  LET prefix == "Error dragging and dropping: "
      source == _get_element(st, source_by, source_value, 1, failAt)
      target == _get_element(st, target_by, target_value, 2, failAt)
  IN IF source.exc # NoExc
     THEN Returned(ErrorResult(<<prefix>> \o source.exc), st, source.calls)
     ELSE IF target.exc # NoExc
     THEN Returned(ErrorResult(<<prefix>> \o target.exc), st, source.calls \o target.calls)
     ELSE LET cs == source.calls \o target.calls \o
                    <<[op |-> "drag_and_drop", handle |-> DriverOf(st),
                       by |-> source_by, value |-> source_value]>>
          IN IF failAt = 3
             THEN Returned(ErrorResult(<<prefix>> \o EngineError("drag_and_drop")), st, cs)
             ELSE Returned(OkResult(<<Text(<<"Dragged from ", source_value, " to ",
                                            target_value>>)>>), st, cs)

\* mutant: the key table is consulted inside the try, after the element or
\* the driver has been looked up
press_key_late_key_check(st, key, by, value, failAt) ==
  LET unsupported == ErrorResult(<<"Unsupported key: ", key>>)
  IN IF Truthy(by) /\ Truthy(value)
     THEN LET ge == _get_element(st, by, value, 1, failAt)
          IN IF ge.exc = NoExc /\ key \notin key_map
             THEN Returned(unsupported, st, ge.calls)
             ELSE OnElement(st, by, value, <<"send_keys">>, "Error pressing key: ",
                            <<Text(<<"Pressed ", key, ".">>)>>, failAt)
     ELSE IF ~HasDriver(st)
     THEN Returned(ErrorResult(<<"Error pressing key: ">> \o LookupError(st)), st, <<>>)
     ELSE IF key \notin key_map
     THEN Returned(unsupported, st, <<>>)
     ELSE LET cs == <<[op |-> "send_keys_focused", handle |-> DriverOf(st)]>>
          IN IF failAt = 1
             THEN Returned(ErrorResult(<<"Error pressing key: ">> \o
                                       EngineError("send_keys")), st, cs)
             ELSE Returned(OkResult(<<Text(<<"Pressed ", key, ".">>)>>), st, cs)

press_key(st, key, by, value, failAt) ==
  IF key \notin key_map
  THEN Returned(ErrorResult(<<"Unsupported key: ", key>>), st, <<>>)
  ELSE IF Truthy(by) /\ Truthy(value)
  THEN OnElement(st, by, value, <<"send_keys">>, "Error pressing key: ",
                 <<Text(<<"Pressed ", key, ".">>)>>, failAt)
  ELSE IF ~HasDriver(st)
  THEN Returned(ErrorResult(<<"Error pressing key: ">> \o LookupError(st)), st, <<>>)
  ELSE LET cs == <<[op |-> "send_keys_focused", handle |-> DriverOf(st)]>>
       IN IF failAt = 1
          THEN Returned(ErrorResult(<<"Error pressing key: ">> \o EngineError("send_keys")),
                        st, cs)
          ELSE Returned(OkResult(<<Text(<<"Pressed ", key, ".">>)>>), st, cs)

\* mutant: the path is tested after the element has been resolved
upload_file_late_path_check(st, by, value, file_path, failAt) ==
  LET ge == _get_element(st, by, value, 1, failAt)
  IN IF ge.exc # NoExc
     THEN Returned(ErrorResult(<<"Error uploading file: ">> \o ge.exc), st, ge.calls)
     ELSE IF file_path \notin ExistingPaths
     THEN Returned(ErrorResult(<<"File does not exist: ", file_path>>), st, ge.calls)
     ELSE OnElement(st, by, value, <<"send_keys">>, "Error uploading file: ",
                    <<Text(<<"Uploaded file ", file_path, " to element located by ",
                             by, "=", value>>)>>, failAt)

upload_file(st, by, value, file_path, failAt) ==
  IF file_path \notin ExistingPaths
  THEN Returned(ErrorResult(<<"File does not exist: ", file_path>>), st, <<>>)
  ELSE OnElement(st, by, value, <<"send_keys">>, "Error uploading file: ",
                 <<Text(<<"Uploaded file ", file_path, " to element located by ",
                          by, "=", value>>)>>, failAt)

take_screenshot(st, failAt) ==
  IF st.current_session = NoSession
  THEN Returned(ErrorResult(<<"No active browser session">>), st, <<>>)
  ELSE IF ~HasDriver(st)
  THEN Returned(ErrorResult(<<"Error taking screenshot: ">> \o LookupError(st)), st, <<>>)
  ELSE LET cs == <<[op |-> "get_screenshot_as_png", handle |-> DriverOf(st)]>>
       IN IF failAt = 1
          THEN Returned(ErrorResult(<<"Error taking screenshot: ">> \o
                                    EngineError("get_screenshot_as_png")), st, cs)
          ELSE Returned(OkResult(<<Text(<<"Screenshot captured">>), Image>>), st, cs)

\* ------------------------------------------------------------- handle_stdio
\* mutant: the dispatcher has no branch for take_screenshot
KnownTools_eleven ==
  {"start_browser", "navigate", "find_element", "click_element", "type_text",
   "hover", "drag_and_drop", "double_click", "right_click", "press_key",
   "upload_file"}

\* the tool names of the dispatch branches of lines 661-727
KnownTools == {"start_browser", "navigate", "find_element", "click_element",
               "type_text", "hover", "drag_and_drop", "double_click",
               "right_click", "press_key", "upload_file", "take_screenshot"}

\* the tools list of the initialize manifest: name and required list
Tool(name, required) == [name |-> name, required |-> required]
Manifest ==
  [name |-> "selenium", version |-> "0.2.0",
   tools |-> <<Tool("start_browser", <<"browser">>),
               Tool("navigate", <<"url">>),
               Tool("find_element", <<"by", "value">>),
               Tool("click_element", <<"by", "value">>),
               Tool("type_text", <<"by", "value", "text">>),
               Tool("hover", <<"by", "value">>),
               Tool("drag_and_drop", <<"source_by", "source_value",
                                       "target_by", "target_value">>),
               Tool("double_click", <<"by", "value">>),
               Tool("right_click", <<"by", "value">>),
               Tool("press_key", <<"key">>),
               Tool("upload_file", <<"by", "value", "file_path">>),
               Tool("take_screenshot", <<>>)>>]

\* the params[...] subscripts of each dispatch branch, in evaluation order
Subscripted(tool_name) ==
  CASE tool_name = "navigate" -> <<"url">>
    [] tool_name \in {"find_element", "click_element", "hover",
                      "double_click", "right_click"} -> <<"by", "value">>
    [] tool_name = "type_text" -> <<"by", "value", "text">>
    [] tool_name = "drag_and_drop" -> <<"source_by", "source_value",
                                        "target_by", "target_value">>
    [] tool_name = "press_key" -> <<"key">>
    [] tool_name = "upload_file" -> <<"by", "value", "file_path">>
    [] OTHER -> <<>>

\* the exception raised while the arguments of a dispatch branch are
\* evaluated, NoExc when there is none
ArgumentError(tool_name, params) ==
  LET keys == Subscripted(tool_name)
      missing == {i \in 1..Len(keys) : keys[i] \notin DOMAIN params}
  IN IF tool_name = "start_browser"
     THEN IF IsMapping(params) THEN NoExc ELSE AttributeErrorGet
     ELSE IF keys = <<>> THEN NoExc
     ELSE IF ~IsMapping(params) THEN TypeErrorSubscript
     ELSE IF missing = {} THEN NoExc
     ELSE KeyErrorOf(keys[CHOOSE i \in missing : \A j \in missing : i <= j])

\* lines 661-727: the call of the server method named tool_name
CallTool(tool_name, params, st, failAt, h) ==
  CASE tool_name = "start_browser" ->
         start_browser(st, Get(params, "browser"),
                       GetD(params, "options", EmptyDict), failAt, h)
    [] tool_name = "navigate" -> navigate(st, params["url"], failAt)
    [] tool_name = "find_element" ->
         find_element(st, params["by"], params["value"], failAt)
    [] tool_name = "click_element" ->
         click_element(st, params["by"], params["value"], failAt)
    [] tool_name = "type_text" ->
         type_text(st, params["by"], params["value"], params["text"],
                   GetD(params, "clear_first", JTrue), failAt)
    [] tool_name = "hover" -> hover(st, params["by"], params["value"], failAt)
    [] tool_name = "drag_and_drop" ->
         drag_and_drop(st, params["source_by"], params["source_value"],
                       params["target_by"], params["target_value"], failAt)
    [] tool_name = "double_click" ->
         double_click(st, params["by"], params["value"], failAt)
    [] tool_name = "right_click" ->
         right_click(st, params["by"], params["value"], failAt)
    [] tool_name = "press_key" ->
         press_key(st, params["key"], Get(params, "by"), Get(params, "value"), failAt)
    [] tool_name = "upload_file" ->
         upload_file(st, params["by"], params["value"], params["file_path"], failAt)
    [] tool_name = "take_screenshot" -> take_screenshot(st, failAt)

ErrorResponse(id, code, message) ==
  [jsonrpc |-> "2.0", id |-> id, error |-> [code |-> code, message |-> message]]
ResultResponse(id, result) ==
  [jsonrpc |-> "2.0", id |-> id, result |-> result]
NoResponse == [k \in {} |-> ""]

\* what the try body does with a parsed request: the response it writes
\* (NoResponse when an exception exc escapes the body instead), the server
\* state and the engine calls
Done(resp, o) ==
  [response |-> resp, exc |-> NoExc, drivers |-> o.drivers,
   current_session |-> o.current_session, calls |-> o.calls]
Threw(exc, st) ==
  [response |-> NoResponse, exc |-> exc, drivers |-> st.drivers,
   current_session |-> st.current_session, calls |-> <<>>]
Idle(st) == Returned(NoResponse, st, <<>>)

\* mutant: the tool's payload is always sent as the result, isError or not
ToolResponse_always_result(request, o) ==
  ResultResponse(Get(request, "id"), o.result)

\* lines 742-756
ToolResponse(request, o) ==
  IF o.result.isError
  THEN ErrorResponse(Get(request, "id"), -32000,
                     IF Len(o.result.content) > 0 THEN o.result.content[1].text
                     ELSE <<"Unknown error">>)
  ELSE ResultResponse(Get(request, "id"), o.result)

\* lines 652-658: the tool name and the parameters of an invoke request
ToolName(request) ==
  IF "tool" \in DOMAIN request THEN request["tool"]
  ELSE Get(GetD(request, "params", EmptyDict), "tool")
\* mutant: the parameters are read at top level only
ToolParams_top_level_only(request) == GetD(request, "parameters", EmptyDict)
ToolParams(request) ==
  IF "tool" \in DOMAIN request THEN GetD(request, "parameters", EmptyDict)
  ELSE GetD(GetD(request, "params", EmptyDict), "parameters", EmptyDict)
\* params_obj.get raises when "params" holds no object
WrapperError(request) ==
  "tool" \notin DOMAIN request /\ ~IsMapping(GetD(request, "params", EmptyDict))

\* lines 661-727 and 742-758: the branch of a known tool and its response
InvokeKnown(request, st, failAt, h) ==
  LET tool_name == ToolName(request)
      params == ToolParams(request)
  IN IF ArgumentError(tool_name, params) # NoExc
     THEN Threw(ArgumentError(tool_name, params), st)
     ELSE LET o == CallTool(tool_name, params, st, failAt, h)
          IN Done(ToolResponse(request, o), o)

\* mutant: no branch for an unknown tool, so line 742 reads an unset result
Invoke_no_else(request, st, failAt, h) ==
  IF WrapperError(request) THEN Threw(AttributeErrorGet, st)
  ELSE IF ToolName(request) \notin KnownTools
  THEN Threw(<<"local variable 'result' referenced before assignment">>, st)
  ELSE InvokeKnown(request, st, failAt, h)

\* lines 650-758
Invoke(request, st, failAt, h) ==
  IF WrapperError(request) THEN Threw(AttributeErrorGet, st)
  ELSE IF ToolName(request) \notin KnownTools
  THEN Done(ErrorResponse(Get(request, "id"), -32601,
                          <<"Unknown tool: ", ToolName(request)>>), Idle(st))
  ELSE InvokeKnown(request, st, failAt, h)

\* line 464
Method(request) == Or(Get(request, "method"), Get(request, "type"))

\* mutant: an unknown method is answered as an invalid request (-32600)
TryBody_invalid_request(request, st, failAt, h) ==
  IF ~IsMapping(request) THEN Threw(AttributeErrorGet, st)
  ELSE IF Method(request) = "initialize"
  THEN Done(ResultResponse(Get(request, "id"), Manifest), Idle(st))
  ELSE IF Method(request) = "invoke"
  THEN Invoke(request, st, failAt, h)
  ELSE Done(ErrorResponse(Get(request, "id"), -32600,
                          <<"Unknown method: ", Method(request)>>), Idle(st))

\* lines 463-770: the try body on the value json.loads returned
TryBody(request, st, failAt, h) ==
  IF ~IsMapping(request) THEN Threw(AttributeErrorGet, st)
  ELSE IF Method(request) = "initialize"
  THEN Done(ResultResponse(Get(request, "id"), Manifest), Idle(st))
  ELSE IF Method(request) = "invoke"
  THEN Invoke(request, st, failAt, h)
  ELSE Done(ErrorResponse(Get(request, "id"), -32601,
                          <<"Unknown method: ", Method(request)>>), Idle(st))

\* -------------------------------------------------------------- input lines
\* The lines a client can send.  A line is malformed (json.loads raises),
\* a JSON value that is not an object, or a JSON object.
Absent == "<absent>"
Opt(k, v) == IF v = Absent THEN EmptyDict ELSE (k :> v)

Locators == {Opt("by", b) @@ Opt("value", v) :
               b \in {Absent, "id", "bogus"}, v \in {Absent, "v"}}
SomeLocators == {[by |-> "id", value |-> "v"], [by |-> "bogus", value |-> "v"],
                 [value |-> "v"]}
Call(tool, parameters) == [tool |-> tool, parameters |-> parameters]

\* tool invocations, with parameters present, missing and out of range
ToolCalls ==
  {Call("start_browser", Opt("browser", b)) :
       b \in {Absent, "chrome", "firefox", "safari"}}
  \cup {Call("start_browser", [browser |-> b, options |-> NonMapping]) :
       b \in {"chrome", "safari"}}
  \cup {Call("start_browser", [browser |-> "firefox", options |-> [headless |-> JTrue]])}
  \cup {Call("navigate", Opt("url", u)) : u \in {Absent, "http://u"}}
  \cup {Call(t, l) : t \in {"find_element", "click_element", "hover",
                            "double_click", "right_click"}, l \in Locators}
  \cup {Call("type_text", l @@ Opt("text", x) @@ Opt("clear_first", c)) :
       l \in SomeLocators, x \in {Absent, "t"}, c \in {Absent, JFalse}}
  \cup {Call("drag_and_drop",
             Opt("source_by", sb) @@ [source_value |-> "s"] @@
             Opt("target_by", tb) @@ Opt("target_value", tv)) :
       sb \in {Absent, "id", "bogus"}, tb \in {"css", "bogus"}, tv \in {Absent, "t"}}
  \cup {Call("press_key", [key |-> "ENTER"] @@ Opt("by", b) @@ Opt("value", v)) :
       b \in {Absent, "id", "bogus"}, v \in {Absent, "v", ""}}
  \cup {Call("press_key", Opt("key", k) @@ l) :
       k \in {Absent, "F1"}, l \in {EmptyDict, [by |-> "id", value |-> "v"]}}
  \cup {Call("upload_file", l @@ Opt("file_path", f)) :
       l \in SomeLocators, f \in {Absent, "/tmp/present.txt", "/tmp/missing.txt"}}
  \cup {Call("take_screenshot", EmptyDict)}
  \cup {Call("bogus_tool", EmptyDict), Call("bogus_tool", [url |-> "http://u"]),
        Call(Absent, EmptyDict), Call(Absent, [browser |-> "chrome"])}
  \cup {Call(t, NonMapping) : t \in {"start_browser", "navigate", "take_screenshot",
                                     "bogus_tool"}}

\* one invocation of every kind, for the envelope variants
SampleCalls ==
  {Call("start_browser", [browser |-> "chrome"]),
   Call("start_browser", [browser |-> "safari"]),
   Call("navigate", [url |-> "http://u"]),
   Call("navigate", EmptyDict),
   Call("click_element", [by |-> "id", value |-> "v"]),
   Call("press_key", [key |-> "ENTER"]),
   Call("take_screenshot", EmptyDict),
   Call("bogus_tool", EmptyDict),
   Call(Absent, EmptyDict)}

\* the envelope of a request: the discriminator under key disc ("method" or
\* "type"), tool and parameters at top level or under "params"
Envelope(id, disc, method, wrapped, c) ==
  LET inner == Opt("tool", c.tool) @@ ("parameters" :> c.parameters)
  IN Opt("id", id) @@ (disc :> method) @@
     (IF wrapped THEN ("params" :> inner) ELSE inner)

Requests ==
  {Envelope("a", d, "invoke", w, c) :
          d \in {"method", "type"}, w \in BOOLEAN, c \in ToolCalls}
  \cup {Envelope(Absent, "method", "invoke", FALSE, c) : c \in SampleCalls}
  \cup {Envelope("b", "type", "invoke", FALSE, c) : c \in SampleCalls}
  \cup {Envelope("b", d, "invoke", TRUE, c) :
          d \in {"method", "type"}, c \in SampleCalls}
  \cup {Opt("id", i) @@ (d :> m) :
          i \in {Absent, "a"}, d \in {"method", "type"},
          m \in {"initialize", "invoke", "shutdown"}}
  \cup {[id |-> "a"], EmptyDict,
        [id |-> "b", method |-> "", type |-> "invoke", tool |-> "take_screenshot"],
        [id |-> "b", method |-> "shutdown", type |-> "invoke", tool |-> "take_screenshot"],
        [id |-> "b", type |-> "invoke", tool |-> "navigate"],
        [id |-> "b", method |-> "invoke", params |-> NonMapping],
        [id |-> "b", method |-> "invoke", params |-> EmptyDict]}

Lines ==
  {[kind |-> "malformed"], [kind |-> "json", value |-> NonMapping]}
  \cup {[kind |-> "json", value |-> r] : r \in Requests}

\* the engine call of an iteration that raises (0: none does); no operation
\* makes more than three engine calls
FailAts == 0..3

\* -------------------------------------------------------------------- state
VARIABLES
  pc,               \* where handle_stdio is: "read" (blocked in readline),
                    \* "try" (a line is read and parsed, the rest of the try
                    \* body is next), "cleanup" (loop left, line 786 next),
                    \* "done" (returned), "interrupted" / "crashed" (a
                    \* KeyboardInterrupt / an exception left handle_stdio)
  drivers,          \* server.drivers
  current_session,  \* server.current_session
  request,          \* the local variable request (Unbound before the first
                    \* successful json.loads)
  line,             \* the line the current iteration read
  response,         \* the line the current iteration wrote to stdout
                    \* (NoResponse when it wrote none)
  wrote,            \* number of lines the current iteration wrote to stdout
  calls,            \* the engine calls the current iteration made
  open,             \* handles of the launched drivers that have not quit
  quits             \* per handle, the number of quit attempts

vars == <<pc, drivers, current_session, request, line, response, wrote, calls,
          open, quits>>

Unbound == [unbound |-> "request"]
NoLine == [kind |-> "none"]
Server == [drivers |-> drivers, current_session |-> current_session]

Init ==
  /\ pc = "read"
  /\ drivers = EmptyDict
  /\ current_session = NoSession
  /\ request = Unbound
  /\ line = NoLine
  /\ response = NoResponse
  /\ wrote = 0
  /\ calls = <<>>
  /\ open = {}
  /\ quits = [h \in 1..MaxDrivers |-> 0]

\* lines 459-463: readline returns the line l and json.loads parses it; a
\* JSONDecodeError leaves request as it was
ReadLine(l) ==
  /\ pc = "read"
  /\ pc' = "try"
  /\ line' = l
  /\ request' = IF l.kind = "malformed" THEN request ELSE l.value
  /\ response' = NoResponse
  /\ wrote' = 0
  /\ calls' = <<>>
  /\ UNCHANGED <<drivers, current_session, open, quits>>

\* the outcome of the try body on the line read
Body(failAt, h) ==
  IF line.kind = "malformed" THEN Threw(JSONDecodeError, Server)
  ELSE TryBody(request, Server, failAt, h)

\* lines 773-784: the handler can build its response only when request is
\* bound to an object (it evaluates request.get("id"))
HandlerFails(req) == req = Unbound \/ ~IsMapping(req)
Launched(b) == {b.calls[i].handle : i \in {j \in 1..Len(b.calls) :
                                             b.calls[j].op = "launch"}} \ {0}

\* The rest of the iteration (lines 464-784): dispatch and write the
\* response, h being id(driver) of a driver the iteration launches; an exception in the try body is answered by the handler, and
\* an exception in the handler leaves handle_stdio.
Dispatch(failAt, h) ==
  LET b == Body(failAt, h)
  IN /\ pc = "try"
     /\ failAt = 0 \/ failAt <= Len(b.calls)
     /\ drivers' = b.drivers
     /\ current_session' = b.current_session
     /\ calls' = b.calls
     /\ open' = open \cup Launched(b)
     /\ IF b.exc = NoExc
        THEN /\ response' = b.response
             /\ wrote' = 1
             /\ pc' = "read"
        ELSE IF HandlerFails(request)
        THEN /\ response' = NoResponse
             /\ wrote' = 0
             /\ pc' = "crashed"
        ELSE /\ response' = ErrorResponse(Get(request, "id"), -32000, b.exc)
             /\ wrote' = 1
             /\ pc' = "read"
     /\ UNCHANGED <<request, line, quits>>

\* line 460: readline returns the empty string
EndOfInput ==
  /\ pc = "read"
  /\ pc' = "cleanup"
  /\ line' = NoLine
  /\ response' = NoResponse
  /\ wrote' = 0
  /\ calls' = <<>>
  /\ UNCHANGED <<drivers, current_session, request, open, quits>>

\* a KeyboardInterrupt while line 459 blocks in readline: the statement is
\* outside the try, so the interrupt propagates out of handle_stdio
InterruptAtRead ==
  /\ pc = "read"
  /\ pc' = "interrupted"
  /\ line' = NoLine
  /\ response' = NoResponse
  /\ wrote' = 0
  /\ calls' = <<>>
  /\ UNCHANGED <<drivers, current_session, request, open, quits>>

\* a KeyboardInterrupt inside the try body (lines 462-770), caught by line
\* 771.  It arrives before the request had any effect (at = "start"),
\* inside start_browser after the driver is launched and before it is
\* registered (at = "launched"; no except Exception clause stops it), or
\* after the server method returned and while the response is written
\* (at = "end").
InterruptPoints == {"start", "launched", "end"}
InterruptInTry(failAt, h, at) ==
  LET b == Body(failAt, h)
  IN /\ pc = "try"
     /\ failAt = 0 \/ failAt <= Len(b.calls)
     /\ at = "start" => failAt = 0
     /\ at = "launched" => Launched(b) # {}
     /\ at = "end" => b.exc = NoExc
     /\ drivers' = IF at = "end" THEN b.drivers ELSE drivers
     /\ current_session' = IF at = "end" THEN b.current_session ELSE current_session
     /\ calls' = IF at = "start" THEN <<>> ELSE b.calls
     /\ open' = IF at = "start" THEN open ELSE open \cup Launched(b)
     /\ pc' = "cleanup"
     /\ UNCHANGED <<request, line, response, wrote, quits>>

\* a KeyboardInterrupt inside the handler of line 773 (while the traceback
\* or the error response is written): nothing catches it
InterruptInHandler(failAt, h) ==
  LET b == Body(failAt, h)
  IN /\ pc = "try"
     /\ failAt = 0 \/ failAt <= Len(b.calls)
     /\ b.exc # NoExc
     /\ calls' = b.calls
     /\ pc' = "interrupted"
     /\ UNCHANGED <<drivers, current_session, request, line, response, wrote,
                    open, quits>>

\* mutant: no try around driver.quit(), so the first quit that raises ends
\* the loop (drivers taken in the order of their handles) and cleanup
cleanup_stops_at_failure(failing) ==
  LET live == LiveIds(drivers)
      reached == {h \in live : \A f \in failing : h <= f}
  IN /\ pc = "cleanup"
     /\ failing \subseteq live
     /\ quits' = [h \in DOMAIN quits |->
                    IF h \in reached THEN quits[h] + 1 ELSE quits[h]]
     /\ open' = open \ (reached \ failing)
     /\ drivers' = IF failing = {} THEN EmptyDict ELSE drivers
     /\ current_session' = IF failing = {} THEN NoSession ELSE current_session
     /\ pc' = IF failing = {} THEN "done" ELSE "crashed"
     /\ UNCHANGED <<request, line, response, wrote, calls>>

\* lines 424-432 (called from line 786): quit every driver, the ones in
\* failing raise and are ignored
cleanup(failing) ==
  /\ pc = "cleanup"
  /\ failing \subseteq LiveIds(drivers)
  /\ quits' = [h \in DOMAIN quits |->
                 IF h \in LiveIds(drivers) THEN quits[h] + 1 ELSE quits[h]]
  /\ open' = open \ (LiveIds(drivers) \ failing)
  /\ drivers' = EmptyDict
  /\ current_session' = NoSession
  /\ pc' = "done"
  /\ UNCHANGED <<request, line, response, wrote, calls>>

Next ==
  \/ \E l \in Lines : ReadLine(l)
  \/ \E failAt \in FailAts, h \in FreshIds(drivers) : Dispatch(failAt, h)
  \/ EndOfInput
  \/ InterruptAtRead
  \/ \E failAt \in FailAts, h \in FreshIds(drivers), at \in InterruptPoints :
       InterruptInTry(failAt, h, at)
  \/ \E failAt \in FailAts, h \in FreshIds(drivers) : InterruptInHandler(failAt, h)
  \/ \E failing \in SUBSET (1..MaxDrivers) : cleanup(failing)

Spec == Init /\ [][Next]_vars

\* =================================================================== claims
\* What a request asks for, read off the protocol (tool and parameters at
\* top level or under a "params" wrapper, discriminator under "method" or
\* "type"); the formulas below use these, not the dispatcher's own values.
IsRequest == line.kind = "json" /\ IsMapping(line.value)
Discriminator ==
  IF "method" \in DOMAIN line.value /\ Truthy(line.value.method)
  THEN line.value.method
  ELSE IF "type" \in DOMAIN line.value THEN line.value.type ELSE None
HasWrapper == "params" \in DOMAIN line.value /\ "tool" \notin DOMAIN line.value
WellFormedInvoke ==
  IsRequest /\ Discriminator = "invoke" /\ (HasWrapper => IsMapping(line.value.params))
Envelope0 == IF HasWrapper THEN line.value.params ELSE line.value
NamedTool == IF "tool" \in DOMAIN Envelope0 THEN Envelope0.tool ELSE None
GivenParams ==
  IF "parameters" \in DOMAIN Envelope0 THEN Envelope0.parameters ELSE EmptyDict
Required(tool) ==
  LET i == CHOOSE j \in 1..Len(Manifest.tools) : Manifest.tools[j].name = tool
  IN {Manifest.tools[i].required[k] : k \in 1..Len(Manifest.tools[i].required)}

Answered == pc = "read" /\ line # NoLine
IsError(r) == "error" \in DOMAIN r
ErrorCode(r) == IF IsError(r) THEN r.error.code ELSE 0
Cause(r) == r.error.message[Len(r.error.message)]
SessionTools == KnownTools \ {"start_browser"}

\* C1: every line that is read (malformed, a JSON value that is not an
\* object, or a request) is answered with exactly one response line before
\* the next line is read.  Fails: the handler of line 773 evaluates
\* request.get("id"), which raises when request is unbound or not an object.
C1_OneResponsePerLine ==
  (pc \in {"read", "crashed"} /\ line # NoLine) => (pc = "read" /\ wrote = 1)

\* C2: when handle_stdio has stopped by end-of-input or by an interrupt,
\* cleanup has run: every driver that was open has had a quit attempt and
\* the registry is empty.  Fails: an interrupt in readline (line 459) or in
\* the handler (lines 774-784) is outside the reach of line 771.
C2_CleanupBeforeExit ==
  pc \in {"done", "interrupted"} =>
    (drivers = EmptyDict /\ \A h \in open : quits[h] >= 1)

\* C3: a line that is not valid JSON is answered with error code -32700.
\* Fails: the answer is -32000 under the id of the previous request, or the
\* process ends without an answer.
C3_ParseError ==
  (pc \in {"read", "crashed"} /\ line.kind = "malformed") =>
    (pc = "read" /\ ErrorCode(response) = -32700)

\* C4: the case the claim is about, and what it requires of a step
C4_Applies ==
  /\ Answered /\ WellFormedInvoke
  /\ NamedTool \in SessionTools
  /\ IsMapping(GivenParams)
  /\ Required(NamedTool) \subseteq DOMAIN GivenParams
  /\ NamedTool = "press_key" => GivenParams.key \in key_map
  /\ NamedTool = "upload_file" => GivenParams.file_path \in ExistingPaths
  /\ current_session = NoSession /\ drivers = EmptyDict

\* C4: with no session started, an invoke of a tool other than
\* start_browser is answered with an error whose cause is "No active
\* browser session".  Stated for the requests to which the specification
\* assigns no other error: every required parameter present, a supported
\* key, an existing upload path.  Fails for press_key without a locator.
C4_NoActiveSession ==
  C4_Applies => (IsError(response) /\ Cause(response) = "No active browser session")

\* C5: the case the claim is about, and what it requires of a step
C5_Applies ==
  pc = "try" /\ current_session = NoSession
  /\ ~(IsRequest /\ Discriminator = "invoke" /\ NamedTool = "start_browser")

\* C5: while current_session is None, a request other than start_browser
\* makes no call on the automation engine.
C5_NoEngineCallWithoutSession ==
  [][C5_Applies => calls' = <<>>]_vars

\* C5: a state in which the case has happened
C5_Witness ==
  /\ Answered /\ WellFormedInvoke /\ NamedTool = "navigate"
  /\ "url" \in DOMAIN GivenParams
  /\ current_session = NoSession /\ calls = <<>> /\ IsError(response)

\* C6: the case the claim is about, and what it requires of a step
ReturnsSessionId(r) ==
  "result" \in DOMAIN r /\ "session_id" \in DOMAIN r.result
C6_Step ==
  /\ (pc = "try" /\ wrote' = 1 /\ ReturnsSessionId(response')) =>
       /\ current_session' = response'.result.session_id
       /\ current_session' \in DOMAIN drivers' \ DOMAIN drivers
  /\ (pc = "try" /\ DOMAIN drivers' # DOMAIN drivers) =>
       /\ current_session' \in DOMAIN drivers' \ DOMAIN drivers
       /\ wrote' = 1 => ReturnsSessionId(response')
  /\ (pc' # "done" /\ current_session' # current_session) =>
       /\ pc = "try" /\ WellFormedInvoke /\ NamedTool = "start_browser"
       /\ DOMAIN drivers' # DOMAIN drivers

\* C6: the session id a successful start_browser returns is the current
\* session from then on: current_session changes only in a step in which
\* start_browser registers a new session, and then to that session's id,
\* which is the id in the response; failed start_browser calls, errors,
\* unknown requests and the other tools leave it as it is.
C6_CurrentSessionStays == [][C6_Step]_vars

\* C6: a state in which the case has happened
C6_Witness ==
  /\ Answered /\ WellFormedInvoke /\ NamedTool = "start_browser"
  /\ IsError(response)
  /\ current_session # NoSession /\ Cardinality(DOMAIN drivers) = 1

\* C7: the case the claim is about, and what it requires of a step
C7_Applies ==
  /\ WellFormedInvoke /\ NamedTool = "start_browser"
  /\ ~(IsMapping(GivenParams) /\ "browser" \in DOMAIN GivenParams
       /\ GivenParams.browser \in Browsers)
C7_Step ==
  (pc = "try" /\ C7_Applies) =>
    /\ calls' = <<>> /\ open' = open
    /\ drivers' = drivers /\ current_session' = current_session
    /\ pc' # "crashed"
    /\ pc' = "read" => IsError(response')

\* C7: start_browser with a kind outside {chrome, firefox}, or with none,
\* is answered with an error, launches nothing and leaves the registry and
\* current_session unchanged.
C7_UnsupportedBrowser == [][C7_Step]_vars

\* C7: a state in which the case has happened
C7_Witness ==
  /\ Answered /\ C7_Applies /\ IsError(response)
  /\ IsMapping(GivenParams) /\ "browser" \in DOMAIN GivenParams
  /\ current_session # NoSession

\* C8: the case the claim is about, and what it requires of a step
C8_Applies == WellFormedInvoke /\ NamedTool \notin KnownTools
C8_Step ==
  (pc = "try" /\ C8_Applies) =>
    /\ calls' = <<>> /\ open' = open
    /\ drivers' = drivers /\ current_session' = current_session
    /\ pc' # "crashed"
    /\ pc' = "read" => ErrorCode(response') = -32601

\* C8: a well-formed invoke whose tool name is none of the twelve (or is
\* missing) is answered with error -32601, makes no engine call and leaves
\* the registry and current_session unchanged.  Well-formed: the "params"
\* wrapper, when it is used, is an object.
C8_UnknownTool == [][C8_Step]_vars

\* C8: a state in which the case has happened
C8_Witness ==
  /\ Answered /\ C8_Applies /\ ErrorCode(response) = -32601
  /\ NamedTool = None /\ current_session # NoSession

\* C9: the case the claim is about, and what it requires of a step
C9_Applies ==
  /\ Answered /\ WellFormedInvoke /\ NamedTool \in KnownTools
  /\ IsMapping(GivenParams)
  /\ ~(Required(NamedTool) \subseteq DOMAIN GivenParams)

\* C9: an invoke of a known tool that omits a parameter of the tool's
\* required list is answered with error -32602.  Fails: the KeyError is
\* answered by the catch-all handler with -32000 (and start_browser without
\* browser with "Unsupported browser: None").
C9_MissingParameter == C9_Applies => ErrorCode(response) = -32602

\* C10: the case the claim is about, and what it requires of a step
C10_Applies == IsRequest /\ Discriminator \notin {"initialize", "invoke"}
C10_Step ==
  (pc = "try" /\ C10_Applies) =>
    /\ calls' = <<>> /\ open' = open
    /\ drivers' = drivers /\ current_session' = current_session
    /\ pc' # "crashed"
    /\ pc' = "read" => (ErrorCode(response') = -32601 /\
                        response'.error.message[1] = "Unknown method: ")

\* C10: a request whose discriminator is neither initialize nor invoke (or
\* is missing) is answered with error -32601 "Unknown method" and leaves
\* the registry and current_session unchanged.
C10_UnknownMethod == [][C10_Step]_vars

\* C10: a state in which the case has happened
C10_Witness ==
  /\ Answered /\ C10_Applies /\ ErrorCode(response) = -32601
  /\ Discriminator = None /\ current_session # NoSession

\* C11: the case the claim is about
HasAllRequired ==
  IsMapping(GivenParams) /\ Required(NamedTool) \subseteq DOMAIN GivenParams
Message(r) == r.error.message
C11_Applies ==
  /\ line # NoLine /\ WellFormedInvoke /\ NamedTool = "press_key"
  /\ HasAllRequired /\ GivenParams.key \notin key_map

\* C11: press_key with a key name outside the nine-entry table is answered
\* with "Unsupported key: <key>", with or without a session and with or
\* without a locator, and no engine call (no element lookup, no key press)
\* is made for it.
C11_UnsupportedKey ==
  C11_Applies =>
    /\ calls = <<>>
    /\ pc # "crashed"
    /\ Answered => (IsError(response) /\
                    Message(response) = <<"Unsupported key: ", GivenParams.key>>)

\* C11: a state in which the case has happened
C11_Witness ==
  /\ Answered /\ C11_Applies /\ IsError(response)
  /\ current_session = NoSession
  /\ "by" \in DOMAIN GivenParams /\ "value" \in DOMAIN GivenParams

\* C12: the case the claim is about
C12_Applies ==
  /\ line # NoLine /\ WellFormedInvoke /\ NamedTool = "upload_file"
  /\ HasAllRequired
IsLookup(c) == c.op = "find_element"

\* C12: upload_file with a path that does not exist is answered with "File
\* does not exist: <path>" whatever the session and the locator are, and no
\* engine call is made; an element lookup is made for upload_file only when
\* the path exists.
C12_FileNotFoundFirst ==
  C12_Applies =>
    /\ GivenParams.file_path \notin ExistingPaths =>
         /\ calls = <<>>
         /\ pc # "crashed"
         /\ Answered => (IsError(response) /\
                         Message(response) =
                           <<"File does not exist: ", GivenParams.file_path>>)
    /\ (\E i \in 1..Len(calls) : IsLookup(calls[i])) =>
         GivenParams.file_path \in ExistingPaths

\* C12: a state in which the case has happened
C12_Witness ==
  /\ Answered /\ C12_Applies /\ IsError(response)
  /\ GivenParams.file_path \notin ExistingPaths
  /\ GivenParams.by \notin by_map
  /\ current_session = NoSession

\* C13: the case the claim is about.  The locators an element operation is
\* given, in the order it resolves them; the operation reaches its
\* locators when the checks the specification puts before them pass (a
\* supported key and a complete locator for press_key, an existing path for
\* upload_file).
ElementTools == {"find_element", "click_element", "double_click", "right_click",
                 "hover", "type_text", "drag_and_drop", "upload_file"}
GivenStrategies ==
  IF NamedTool = "drag_and_drop"
  THEN <<GivenParams.source_by, GivenParams.target_by>>
  ELSE <<GivenParams.by>>
C13_Applies ==
  /\ line # NoLine /\ pc # "done" /\ WellFormedInvoke
  /\ NamedTool \in ElementTools \cup {"press_key"}
  /\ HasAllRequired
  /\ NamedTool = "press_key" =>
       /\ GivenParams.key \in key_map
       /\ "by" \in DOMAIN GivenParams /\ GivenParams.by # ""
       /\ "value" \in DOMAIN GivenParams /\ GivenParams.value # ""
  /\ NamedTool = "upload_file" => GivenParams.file_path \in ExistingPaths
  /\ HasDriver(Server)
  /\ \E i \in 1..Len(GivenStrategies) : GivenStrategies[i] \notin by_map
FirstInvalid ==
  GivenStrategies[CHOOSE i \in 1..Len(GivenStrategies) :
                    /\ GivenStrategies[i] \notin by_map
                    /\ \A j \in 1..(i - 1) : GivenStrategies[j] \in by_map]
InvalidStrategyAnswer ==
  /\ IsError(response) /\ Len(Message(response)) = 3
  /\ Message(response)[2] = "Invalid locator strategy: "
  /\ Message(response)[3] = FirstInvalid
EarlierLookupFailed ==
  /\ IsError(response) /\ NamedTool = "drag_and_drop"
  /\ GivenParams.source_by \in by_map
  /\ Message(response)[Len(Message(response))] = "timeout"

C14_Step ==
  pc = "cleanup" =>
    /\ \A h \in DOMAIN quits :
         quits'[h] = quits[h] + (IF h \in LiveIds(drivers) THEN 1 ELSE 0)
    /\ drivers' = EmptyDict
    /\ current_session' = NoSession
    /\ pc' = "done"

\* C14: cleanup makes one quit attempt on every driver of the registry, and
\* on no other, whichever of the attempts raise, and it returns with the
\* registry empty and current_session None.
C14_CleanupQuitsAll == [][C14_Step]_vars

\* C14: a state in which the case has happened (two drivers, the quit of
\* one of them raised and the other was still attempted)
C14_Witness ==
  /\ pc = "done" /\ drivers = EmptyDict /\ current_session = NoSession
  /\ \E h1, h2 \in DOMAIN quits :
       /\ h1 \in open /\ quits[h1] = 1
       /\ h2 \notin open /\ quits[h2] = 1

\* C15: what the claim requires of a step
C15_Step ==
  /\ (pc = "try" /\ wrote' = 1 /\ ReturnsSessionId(response')) =>
       LET sid == response'.result.session_id
       IN /\ sid \notin DOMAIN drivers
          /\ DOMAIN drivers' = DOMAIN drivers \cup {sid}
          /\ drivers'[sid] \notin LiveIds(drivers)
  /\ (pc = "try" /\ pc' = "read" /\ ~ReturnsSessionId(response')) =>
       drivers' = drivers
  /\ pc # "cleanup" =>
       \A s \in DOMAIN drivers : s \in DOMAIN drivers' /\ drivers'[s] = drivers[s]

\* C15: a successful start_browser returns a session id that is not in the
\* registry, and the registry gains exactly that entry; no other request
\* changes the registry, and no entry is removed or overwritten before
\* cleanup.  Hence the ids returned so far are the keys of the registry,
\* pairwise different, and their number is the number of successful calls.
C15_SessionIdsUnique == [][C15_Step]_vars

\* C15: a state in which the case has happened (a second session of the
\* same browser kind)
C15_Witness ==
  /\ Answered /\ WellFormedInvoke /\ NamedTool = "start_browser"
  /\ ReturnsSessionId(response)
  /\ Cardinality(DOMAIN drivers) = 2
  /\ \A s \in DOMAIN drivers : s.browser = "chrome"

\* C16: the case the claim is about: a line has been dispatched and it was
\* not a start_browser request
C16_Applies ==
  /\ line # NoLine /\ pc \in {"read", "cleanup", "interrupted", "crashed"}
  /\ ~(IsRequest /\ Discriminator = "invoke" /\ NamedTool = "start_browser")

\* C16: every engine call made for a request other than start_browser is
\* made on the driver registered under current_session (which, by C6, is
\* the session of the latest successful start_browser), never on the driver
\* of another session.
C16_CallsOnCurrentDriver ==
  C16_Applies =>
    \A i \in 1..Len(calls) :
      HasDriver(Server) /\ calls[i].handle = drivers[current_session]

\* C16: a state in which the case has happened (two sessions, and an
\* element operation that made its engine calls)
C16_Witness ==
  /\ Answered /\ C16_Applies /\ WellFormedInvoke /\ NamedTool = "click_element"
  /\ Cardinality(DOMAIN drivers) = 2 /\ Len(calls) = 2
  /\ "result" \in DOMAIN response

\* C17: the case the claim is about: the line read is an invoke request
\* that names a tool; the four supported shapes of that same invocation
C17_Applies ==
  line # NoLine /\ WellFormedInvoke /\ "tool" \in DOMAIN Envelope0
GivenId == IF "id" \in DOMAIN line.value THEN line.value.id ELSE Absent
Shape(disc, wrapped) ==
  Envelope(GivenId, disc, "invoke", wrapped, Call(NamedTool, GivenParams))
Shapes == {Shape(d, w) : d \in {"method", "type"}, w \in BOOLEAN}

\* C17: in every server state and for every behaviour of the engine, the
\* same tool name and parameters sent in any of the supported shapes
\* (discriminator under "method" or "type", tool and parameters at top
\* level or under "params"), and in the shape of the line that was read,
\* get the same dispatch: the same engine calls, the same registry and
\* current session afterwards, the same response or exception.
C17_EnvelopeShapesAgree ==
  C17_Applies =>
    \A failAt \in FailAts, h \in FreshIds(drivers) :
      \A r \in Shapes \cup {line.value} :
        TryBody(r, Server, failAt, h) =
          TryBody(Shape("method", FALSE), Server, failAt, h)

\* C17: a state in which the case has happened (a request in the wrapped
\* shape with the discriminator under "type" was dispatched to the engine)
C17_Witness ==
  /\ Answered /\ C17_Applies /\ HasWrapper
  /\ "type" \in DOMAIN line.value /\ "method" \notin DOMAIN line.value
  /\ NamedTool = "navigate" /\ "result" \in DOMAIN response /\ calls # <<>>

\* C18: in every reachable state the drivers that were launched and have
\* not quit are exactly the drivers held in the registry.  Fails: cleanup
\* empties the registry also when a quit raised and the driver is still
\* open (lines 428-431), and an interrupt inside start_browser after the
\* driver is constructed leaves an open driver that was never registered.
C18_OpenIffRegistered == open = LiveIds(drivers)

\* C19: the case the claim is about, and what it requires of a step.  The
\* documented names are the twelve of the specification; a name is accepted
\* by the dispatcher when an invoke of it is not answered "Unknown tool".
DocumentedTools ==
  {"start_browser", "navigate", "find_element", "click_element", "type_text",
   "hover", "drag_and_drop", "double_click", "right_click", "press_key",
   "upload_file", "take_screenshot"}
OtherNames == {"bogus_tool", "close_browser", "Navigate", "", None}
Accepts(name) ==
  LET b == TryBody([id |-> "a", method |-> "invoke", tool |-> name,
                    parameters |-> EmptyDict], Server, 0, 0)
  IN ~(b.exc = NoExc /\ ErrorCode(b.response) = -32601)
ManifestNames(r) == {r.result.tools[i].name : i \in 1..Len(r.result.tools)}
C19_Applies == IsRequest /\ Discriminator = "initialize"
C19_Step ==
  (pc = "try" /\ C19_Applies) =>
    /\ drivers' = drivers /\ current_session' = current_session
    /\ calls' = <<>> /\ open' = open
    /\ pc' # "crashed"
    /\ pc' = "read" =>
         /\ "result" \in DOMAIN response'
         /\ Len(response'.result.tools) = 12
         /\ ManifestNames(response') = DocumentedTools
         /\ \A name \in DocumentedTools \cup OtherNames :
              Accepts(name) <=> name \in ManifestNames(response')

\* C19: an initialize request, in any server state, is answered with a
\* manifest that lists exactly the twelve documented tools, each once; the
\* dispatcher accepts exactly the listed names and answers every other name
\* with "Unknown tool"; the request leaves the registry and current_session
\* unchanged and makes no engine call.
C19_ManifestMatchesDispatch == [][C19_Step]_vars

\* C19: a state in which the case has happened (initialize answered while a
\* session is open)
C19_Witness ==
  /\ Answered /\ C19_Applies /\ "result" \in DOMAIN response
  /\ current_session # NoSession /\ Cardinality(DOMAIN drivers) = 2

\* C20: the case the claim is about: press_key with a supported key while a
\* session is active; the locator is given, absent, or given in part
C20_Applies ==
  /\ line # NoLine /\ pc # "done" /\ WellFormedInvoke /\ NamedTool = "press_key"
  /\ HasAllRequired /\ GivenParams.key \in key_map
  /\ HasDriver(Server)
NonEmpty(k) == k \in DOMAIN GivenParams /\ GivenParams[k] # ""
LocatorGiven == NonEmpty("by") /\ NonEmpty("value")
NoLocator == "by" \notin DOMAIN GivenParams /\ "value" \notin DOMAIN GivenParams
ToFocused(c) == c.op = "send_keys_focused"

\* C20: press_key sends the key to the located element when a locator is
\* given and to the focused element only when the request carries no
\* locator at all.  Fails: line 325 tests "by and value", so a request with
\* by and no value, value and no by, or an empty string for either takes
\* the branch of line 330 and the key goes to the focused element.
C20_FocusedOnlyWithoutLocator ==
  C20_Applies =>
    /\ (\E i \in 1..Len(calls) : ToFocused(calls[i])) => NoLocator
    /\ LocatorGiven =>
         \A i \in 1..Len(calls) :
           /\ calls[i].op \in {"find_element", "send_keys"}
           /\ calls[i].by = GivenParams.by /\ calls[i].value = GivenParams.value

\* C21: the case the claim is about
C21_Applies ==
  /\ line # NoLine /\ WellFormedInvoke /\ NamedTool = "drag_and_drop"
  /\ HasAllRequired
IsLookupOf(c, by, value) == IsLookup(c) /\ c.by = by /\ c.value = value
IsDrag(c) == c.op = "drag_and_drop"

\* C21: the engine calls of drag_and_drop are, in this order, the lookup of
\* the source, the lookup of the target and the drag gesture, each made
\* only when the ones before it succeeded: a gesture is always the third
\* call, after both lookups; with no session or an invalid strategy on
\* either side there is no gesture; and whenever the gesture is not
\* reached the answer is an error.
C21_DragAfterBothResolved ==
  C21_Applies =>
    /\ Len(calls) <= 3
    /\ Len(calls) >= 1 =>
         IsLookupOf(calls[1], GivenParams.source_by, GivenParams.source_value)
    /\ Len(calls) >= 2 =>
         IsLookupOf(calls[2], GivenParams.target_by, GivenParams.target_value)
    /\ Len(calls) = 3 => IsDrag(calls[3])
    /\ (\/ GivenParams.source_by \notin by_map
        \/ GivenParams.target_by \notin by_map
        \/ (pc # "done" /\ ~HasDriver(Server))) => Len(calls) < 3
    /\ pc # "crashed"
    /\ (Answered /\ Len(calls) < 3) => IsError(response)

\* C21: a state in which the case has happened (the source resolved, the
\* target was looked up and not found, no gesture, an error)
C21_Witness ==
  /\ Answered /\ C21_Applies /\ IsError(response)
  /\ GivenParams.source_by \in by_map /\ GivenParams.target_by \in by_map
  /\ Len(calls) = 2

\* C22: what the claim requires of a step
SessionStateChanges == drivers' # drivers \/ current_session' # current_session
C22_Step ==
  /\ SessionStateChanges =>
       \/ pc = "cleanup"
       \/ /\ pc = "try" /\ WellFormedInvoke /\ NamedTool = "start_browser"
          /\ pc' # "crashed"
          /\ pc' = "read" => ReturnsSessionId(response')
  /\ (pc = "try" /\ pc' = "read" /\ IsError(response')) => ~SessionStateChanges
  /\ (pc = "try" /\ pc' = "read" /\
      ~(WellFormedInvoke /\ NamedTool = "start_browser")) => ~SessionStateChanges

\* C22: the registry and current_session change only in a step of cleanup
\* or of a start_browser that succeeds; a request answered with an error,
\* a request that ends the loop with an exception, and a successful
\* request other than start_browser leave both as they were.
C22_OnlyStartBrowserChangesSessions == [][C22_Step]_vars

\* C22: a state in which the case has happened (a navigate that failed in
\* the engine while a session was open, and the session is still there)
C22_Witness ==
  /\ Answered /\ WellFormedInvoke /\ NamedTool = "navigate"
  /\ IsError(response) /\ calls # <<>>
  /\ HasDriver(Server)

\* C23: in every reachable state current_session is None or a key of the
\* registry, so self.drivers[self.current_session] finds a driver whenever
\* current_session is set.
C23_CurrentSessionRegistered ==
  current_session = NoSession \/ current_session \in DOMAIN drivers

\* C23: a state in which the case has happened (two sessions, and a
\* press_key without locator, whose lookup at line 330 has no session
\* check in front of it, found the driver)
C23_Witness ==
  /\ Answered /\ WellFormedInvoke /\ NamedTool = "press_key"
  /\ "result" \in DOMAIN response
  /\ Len(calls) = 1 /\ ToFocused(calls[1])
  /\ current_session # NoSession /\ Cardinality(DOMAIN drivers) = 2

\* C24: the id of the line that was read: the value under "id" of a request
\* object, null for a request without id and for a line that is no request
LineId == IF IsRequest /\ "id" \in DOMAIN line.value THEN line.value.id ELSE None

\* C24: every response carries the id of the line it answers (null when
\* that line has none), never the id of an earlier request.  Fails: when
\* json.loads raises, the handler of line 773 builds its response from the
\* variable request, which still holds the previous request.
C24_ResponseCarriesRequestId ==
  Answered => ("id" \in DOMAIN response /\ response.id = LineId)

\* C25: the case the claim is about, and what it requires of a step.
\* Payload(failAt, h) is what the server method of the request returns in
\* the current server state when the engine call numbered failAt raises.
C25_Applies == WellFormedInvoke /\ NamedTool \in KnownTools
ExactlyOneOfResultAndError(r) == ("result" \in DOMAIN r) # ("error" \in DOMAIN r)
Payload(failAt, h) == CallTool(NamedTool, GivenParams, Server, failAt, h)
Wraps(r, o) ==
  IF o.result.isError
  THEN /\ "result" \notin DOMAIN r
       /\ ErrorCode(r) = -32000
       /\ Message(r) = o.result.content[1].text
  ELSE /\ "error" \notin DOMAIN r
       /\ "result" \in DOMAIN r /\ r.result = o.result
       /\ NamedTool = "start_browser" =>
            ("session_id" \in DOMAIN r.result /\ r.result.session_id \in DOMAIN o.drivers)
EngineRaised(o, failAt) == failAt >= 1 /\ failAt <= Len(o.calls)
C25_Step ==
  (pc = "try" /\ C25_Applies) =>
    /\ pc' # "crashed"
    /\ pc' = "read" =>
         /\ ExactlyOneOfResultAndError(response')
         /\ IsError(response') => ErrorCode(response') = -32000
         /\ HasAllRequired =>
              \E failAt \in FailAts, h \in FreshIds(drivers) :
                /\ Payload(failAt, h).calls = calls'
                /\ Payload(failAt, h).drivers = drivers'
                /\ Wraps(response', Payload(failAt, h))
    /\ HasAllRequired =>
         \A failAt \in FailAts, h \in FreshIds(drivers) :
           /\ Payload(failAt, h).exc = NoExc
           /\ EngineRaised(Payload(failAt, h), failAt) =>
                /\ Payload(failAt, h).result.isError
                /\ Len(Payload(failAt, h).result.content) >= 1

\* C25: an invoke of a known tool is answered with exactly one of result
\* and error, and an error has code -32000.  The answer wraps what the
\* tool returned: an error whose message is the first content text when
\* the tool reports isError, and otherwise the whole payload as result
\* (with the session_id for start_browser).  An engine call that raises
\* makes the tool return an isError payload, so it ends as such an error
\* response, and no exception leaves handle_stdio.
C25_ToolResultWrapped == [][C25_Step]_vars

\* C25: a state in which the case has happened (the click on a located
\* element raised in the engine and was answered with a -32000 error)
C25_Witness ==
  /\ Answered /\ C25_Applies /\ NamedTool = "click_element"
  /\ Len(calls) = 2 /\ ErrorCode(response) = -32000
  /\ Message(response) = <<"Error clicking element: ", "engine: ", "click">>

====
